---- MODULE Spec2Model ----
(* State-machine model of the in-memory stores of src/src/main.rs: the    *)
(* five Mutex<Vec<..>> collections of AppState and BotAppState and the     *)
(* request handlers that read and write them.                              *)
EXTENDS Integers, Sequences, FiniteSets, TLC

(* ---------------------------------------------------------------------- *)
(* Bounds                                                                  *)
(* ---------------------------------------------------------------------- *)
\* records that may be live beyond the ones main() seeds, over all stores
MaxRecords == 2
\* the same, in runs with handlers in parallel
MaxRecordsLock == 1
\* request workers running handlers in parallel
NumWorkers == 2

(* ---------------------------------------------------------------------- *)
(* Values                                                                  *)
(* ---------------------------------------------------------------------- *)
\* Option<T>: None is the empty sequence, Some(x) the one-element sequence
None == << >>
Some(x) == << x >>

StoreNames == {"tasks", "comments", "goals", "bot_tasks", "bot_goals"}

\* Uuid::new_v4() is random: any value of the pool may come out
Uuids == {"u1", "u2"}

\* the dates Local::now() may report
Todays == { <<2025, 1, 31>>, <<2024, 12, 15>> }

\* request bodies, already parsed by web::Json
TaskBody1 ==
  [id |-> None, title |-> "a", date |-> "This Month", completed |-> FALSE, priority |-> "High"]
TaskBody2 ==
  [id |-> Some(9), title |-> "b", date |-> "2025-03-01", completed |-> TRUE, priority |-> "Low"]
TaskInputs == {TaskBody1, TaskBody2}
CommentBody1 == [id |-> Some(9), title |-> "u", content |-> "y"]
CommentBody2 == [id |-> None, title |-> "t", content |-> "x"]
CommentInputs == {CommentBody1, CommentBody2}
CreateGoalInputs ==
  { [title |-> "g", description |-> "d", priority |-> "High", due_date |-> "2025-03-01"] }
UpdateProgressInputs == { [progress |-> 50] }
BotTaskBody1 == [id |-> None, title |-> "p", completed |-> FALSE, is_pomodoro |-> TRUE]
BotTaskBody2 == [id |-> Some(9), title |-> "q", completed |-> TRUE, is_pomodoro |-> FALSE]
BotTaskInputs == {BotTaskBody1, BotTaskBody2}
BotGoalInputs == { [id |-> Some("u2"), title |-> "h", progress |-> 3] }

\* the comments main() seeds the comment store with
SeedComments ==
  << [id |-> Some(1), title |-> "Market research", content |-> "Find my keynote attached..."],
     [id |-> Some(2), title |-> "Market research", content |-> "I've added the data..."] >>

\* path parameters {id}: every id a record can carry, and one beyond
PathIds == 1..(Len(SeedComments) + MaxRecords + 1)
PathIdsLock == 1..(Len(SeedComments) + MaxRecordsLock + 1)

Workers == 1..NumWorkers

(* ---------------------------------------------------------------------- *)
(* Date resolution of add_task                                             *)
(* ---------------------------------------------------------------------- *)
IsLeap(y) == (y % 4 = 0 /\ y % 100 # 0) \/ y % 400 = 0

DaysInMonth(y, m) ==
  IF m = 2 THEN (IF IsLeap(y) THEN 29 ELSE 28)
  ELSE IF m \in {4, 6, 9, 11} THEN 30 ELSE 31

\* NaiveDate::from_ymd_opt(y, m, d).unwrap_or(dflt)
FromYmdOr(y, m, d, dflt) ==
  IF m \in 1..12 /\ d \in 1..DaysInMonth(y, m) THEN <<y, m, d>> ELSE dflt

NextDay(dt) ==
  IF dt[3] < DaysInMonth(dt[1], dt[2]) THEN <<dt[1], dt[2], dt[3] + 1>>
  ELSE IF dt[2] < 12 THEN <<dt[1], dt[2] + 1, 1>>
  ELSE <<dt[1] + 1, 1, 1>>

RECURSIVE AddDays(_, _)
AddDays(dt, n) == IF n = 0 THEN dt ELSE AddDays(NextDay(dt), n - 1)

Pad2(n) == IF n < 10 THEN "0" \o ToString(n) ELSE ToString(n)

\* NaiveDate::to_string(): ISO 8601 year-month-day
DateToString(dt) == ToString(dt[1]) \o "-" \o Pad2(dt[2]) \o "-" \o Pad2(dt[3])

ResolveDate(date, today) ==
  CASE date = "Today"      -> DateToString(today)
    [] date = "Tomorrow"   -> DateToString(AddDays(today, 1))
    [] date = "This Week"  -> DateToString(AddDays(today, 7))
    [] date = "This Month" ->
         DateToString(IF today[2] = 12
                      THEN FromYmdOr(today[1] + 1, 1, today[3], today)
                      ELSE FromYmdOr(today[1], today[2] + 1, today[3], today))
    [] OTHER -> date

(* ---------------------------------------------------------------------- *)
(* State                                                                   *)
(* ---------------------------------------------------------------------- *)
VARIABLES
  tasks,      \* AppState.tasks
  comments,   \* AppState.comments
  goals,      \* AppState.goals
  bot_tasks,  \* BotAppState.tasks
  bot_goals,  \* BotAppState.goals
  resp,       \* the request the last handler served and its HttpResponse
  added,      \* per store: the records its add handler returned so far
  pure,       \* per store: no handler other than list and add ran on it
  lock,       \* per store: the worker holding its Mutex, or 0
  pc,         \* per worker: position in the handler it runs
  op,         \* per worker: the store its handler works on
  new_id      \* per worker: the id its add handler computed from len()

storeVars == <<tasks, comments, goals, bot_tasks, bot_goals>>
dataVars == <<tasks, comments, goals, bot_tasks, bot_goals, resp, added, pure>>
lockVars == <<lock, pc, op, new_id>>
vars == <<tasks, comments, goals, bot_tasks, bot_goals, resp, added, pure,
          lock, pc, op, new_id>>

Store(s) ==
  CASE s = "tasks" -> tasks
    [] s = "comments" -> comments
    [] s = "goals" -> goals
    [] s = "bot_tasks" -> bot_tasks
    [] s = "bot_goals" -> bot_goals

\* the collections main() constructs
InitStore(s) == IF s = "comments" THEN SeedComments ELSE << >>

Init ==
  /\ tasks = InitStore("tasks")
  /\ comments = InitStore("comments")
  /\ goals = InitStore("goals")
  /\ bot_tasks = InitStore("bot_tasks")
  /\ bot_goals = InitStore("bot_goals")
  /\ resp = [op |-> "none", id |-> 0, req |-> << >>, status |-> 0, body |-> << >>]
  /\ added = [s \in StoreNames |-> << >>]
  /\ pure = [s \in StoreNames |-> TRUE]
  /\ lock = [s \in StoreNames |-> 0]
  /\ pc = [w \in Workers |-> "idle"]
  /\ op = [w \in Workers |-> "none"]
  /\ new_id = [w \in Workers |-> 0]

(* ---------------------------------------------------------------------- *)
(* Helpers                                                                 *)
(* ---------------------------------------------------------------------- *)
\* iter().position(|r| r.id == Some(id)): index of the first match, 0 if none
Position(seq, id) ==
  IF \E i \in 1..Len(seq) : seq[i].id = Some(id)
  THEN CHOOSE i \in 1..Len(seq) :
         /\ seq[i].id = Some(id)
         /\ \A j \in 1..(i - 1) : seq[j].id # Some(id)
  ELSE 0

\* slip: only the record at the position found is removed
RemoveFirstMatch(seq, id) ==
  LET i == Position(seq, id)
  IN IF i = 0 THEN seq ELSE SubSeq(seq, 1, i - 1) \o SubSeq(seq, i + 1, Len(seq))

\* Vec::retain(|r| r.id != Some(id))
Retain(seq, id) == SelectSeq(seq, LAMBDA r : r.id # Some(id))

Ok(o, i, q, b) == [op |-> o, id |-> i, req |-> q, status |-> 200, body |-> b]
NotFound(o, i, q) == [op |-> o, id |-> i, req |-> q, status |-> 404, body |-> << >>]

\* records live beyond the seeded ones
LiveRecords ==
  Len(tasks) + Len(comments) + Len(goals) + Len(bot_tasks) + Len(bot_goals)
    - Len(SeedComments)

\* bookkeeping of the add history of store s
NoteAdd(s, r) ==
  /\ added' = [added EXCEPT ![s] = IF pure[s] THEN Append(@, r) ELSE @]
  /\ pure' = pure
NoteOther(s, before, after) ==
  IF before = after THEN UNCHANGED <<added, pure>>
  ELSE /\ added' = [added EXCEPT ![s] = << >>]
       /\ pure' = [pure EXCEPT ![s] = FALSE]
NoteNone == UNCHANGED <<added, pure>>

(* ---------------------------------------------------------------------- *)
(* Handler bodies: from the collection a handler finds under the lock to   *)
(* the collection it leaves (store) and the response it returns (resp)     *)
(* ---------------------------------------------------------------------- *)
\* len() as u32 + 1
NextId(seq) == Len(seq) + 1

\* get_tasks, get_comments, get_goals, get_bot_tasks, get_bot_goals
List(o, seq) == [store |-> seq, resp |-> Ok(o, 0, << >>, seq)]

AddTask(ts, id, task, today) ==
  LET new_task == [task EXCEPT !.id = Some(id),
                               !.date = ResolveDate(task.date, today)]
  IN [store |-> Append(ts, new_task), resp |-> Ok("add_task", 0, task, new_task)]

\* slip: an absent id is answered with 404, as complete_bot_task does
CompleteTaskSignalsNotFound(ts, task_id) ==
  LET i == Position(ts, task_id)
  IN IF i # 0
     THEN [store |-> [ts EXCEPT ![i].completed = TRUE],
           resp |-> Ok("complete_task", task_id, << >>,
                       [ts EXCEPT ![i].completed = TRUE])]
     ELSE [store |-> ts, resp |-> NotFound("complete_task", task_id, << >>)]

\* slip: the flag is flipped instead of set
CompleteTaskToggles(ts, task_id) ==
  LET i == Position(ts, task_id)
      after == IF i # 0 THEN [ts EXCEPT ![i].completed = ~@] ELSE ts
  IN [store |-> after, resp |-> Ok("complete_task", task_id, << >>, after)]

CompleteTask(ts, task_id) ==
  LET i == Position(ts, task_id)
      after == IF i # 0 THEN [ts EXCEPT ![i].completed = TRUE] ELSE ts
  IN [store |-> after, resp |-> Ok("complete_task", task_id, << >>, after)]

\* slip: the new comment is inserted in front
AddCommentInFront(cs, id, comment) ==
  LET new_comment == [comment EXCEPT !.id = Some(id)]
  IN [store |-> <<new_comment>> \o cs,
      resp |-> Ok("add_comment", 0, comment, new_comment)]

AddComment(cs, id, comment) ==
  LET new_comment == [comment EXCEPT !.id = Some(id)]
  IN [store |-> Append(cs, new_comment),
      resp |-> Ok("add_comment", 0, comment, new_comment)]

\* slip: the id of the request body is left in the stored comment
UpdateCommentKeepsBodyId(cs, id, comment) ==
  LET i == Position(cs, id)
  IN IF i # 0
     THEN [store |-> [cs EXCEPT ![i] = comment],
           resp |-> Ok("update_comment", id, comment, comment)]
     ELSE [store |-> cs, resp |-> NotFound("update_comment", id, comment)]

UpdateComment(cs, id, comment) ==
  LET i == Position(cs, id)
      existing_comment == [comment EXCEPT !.id = Some(id)]
  IN IF i # 0
     THEN [store |-> [cs EXCEPT ![i] = existing_comment],
           resp |-> Ok("update_comment", id, comment, existing_comment)]
     ELSE [store |-> cs, resp |-> NotFound("update_comment", id, comment)]

CreateGoal(gs, goal, uuid) ==
  LET new_goal == [id |-> uuid, title |-> goal.title,
                   description |-> goal.description,
                   priority |-> goal.priority, due_date |-> goal.due_date,
                   progress |-> 0, sub_goals |-> << >>]
  IN [store |-> Append(gs, new_goal), resp |-> Ok("create_goal", 0, goal, new_goal)]

UpdateProgress(gs, id, progress) ==
  LET hit == {k \in 1..Len(gs) : gs[k].id = id}
      i == IF hit = {} THEN 0 ELSE CHOOSE k \in hit : \A j \in hit : k <= j
      goal == [gs[i] EXCEPT !.progress = progress.progress]
  IN IF i # 0
     THEN [store |-> [gs EXCEPT ![i] = goal],
           resp |-> Ok("update_progress", id, progress, goal)]
     ELSE [store |-> gs, resp |-> NotFound("update_progress", id, progress)]

AddBotTask(ts, id, task) ==
  LET new_task == [task EXCEPT !.id = Some(id)]
  IN [store |-> Append(ts, new_task), resp |-> Ok("add_bot_task", 0, task, new_task)]

UpdateBotTask(ts, id, task) ==
  LET i == Position(ts, id)
      existing_task == [ts[i] EXCEPT !.title = task.title,
                                     !.completed = task.completed,
                                     !.is_pomodoro = task.is_pomodoro]
  IN IF i # 0
     THEN [store |-> [ts EXCEPT ![i] = existing_task],
           resp |-> Ok("update_bot_task", id, task, existing_task)]
     ELSE [store |-> ts, resp |-> NotFound("update_bot_task", id, task)]

\* slip: the flag is set on a copy, the stored task is left as it was
CompleteBotTaskNotStored(ts, task_id) ==
  LET i == Position(ts, task_id)
      task == [ts[i] EXCEPT !.completed = TRUE]
  IN IF i # 0
     THEN [store |-> ts, resp |-> Ok("complete_bot_task", task_id, << >>, task)]
     ELSE [store |-> ts, resp |-> NotFound("complete_bot_task", task_id, << >>)]

CompleteBotTask(ts, task_id) ==
  LET i == Position(ts, task_id)
      task == [ts[i] EXCEPT !.completed = TRUE]
  IN IF i # 0
     THEN [store |-> [ts EXCEPT ![i] = task],
           resp |-> Ok("complete_bot_task", task_id, << >>, task)]
     ELSE [store |-> ts, resp |-> NotFound("complete_bot_task", task_id, << >>)]

AddBotGoal(gs, goal, uuid) ==
  LET new_goal == [goal EXCEPT !.id = Some(uuid)]
  IN [store |-> Append(gs, new_goal), resp |-> Ok("add_bot_goal", 0, goal, new_goal)]

DeleteBotTask(ts, task_id) ==
  IF Position(ts, task_id) # 0
  THEN [store |-> Retain(ts, task_id),
        resp |-> Ok("delete_bot_task", task_id, << >>, << >>)]
  ELSE [store |-> ts, resp |-> NotFound("delete_bot_task", task_id, << >>)]

(* ---------------------------------------------------------------------- *)
(* Sequential use: one request at a time, each handler runs from lock()    *)
(* to its return in one step                                               *)
(* ---------------------------------------------------------------------- *)
get_tasks ==
  /\ resp' = List("get_tasks", tasks).resp
  /\ NoteNone /\ UNCHANGED storeVars /\ UNCHANGED lockVars

add_task ==
  /\ LiveRecords < MaxRecords
  /\ \E task \in TaskInputs, today \in Todays :
       LET r == AddTask(tasks, NextId(tasks), task, today)
       IN tasks' = r.store /\ resp' = r.resp /\ NoteAdd("tasks", r.resp.body)
  /\ UNCHANGED <<comments, goals, bot_tasks, bot_goals>> /\ UNCHANGED lockVars

complete_task ==
  /\ \E task_id \in PathIds :
       LET r == CompleteTask(tasks, task_id)
       IN tasks' = r.store /\ resp' = r.resp
  /\ NoteOther("tasks", tasks, tasks')
  /\ UNCHANGED <<comments, goals, bot_tasks, bot_goals>> /\ UNCHANGED lockVars

get_comments ==
  /\ resp' = List("get_comments", comments).resp
  /\ NoteNone /\ UNCHANGED storeVars /\ UNCHANGED lockVars

add_comment ==
  /\ LiveRecords < MaxRecords
  /\ \E comment \in CommentInputs :
       LET r == AddComment(comments, NextId(comments), comment)
       IN comments' = r.store /\ resp' = r.resp
          /\ NoteAdd("comments", r.resp.body)
  /\ UNCHANGED <<tasks, goals, bot_tasks, bot_goals>> /\ UNCHANGED lockVars

update_comment ==
  /\ \E id \in PathIds, comment \in CommentInputs :
       LET r == UpdateComment(comments, id, comment)
       IN comments' = r.store /\ resp' = r.resp
  /\ NoteOther("comments", comments, comments')
  /\ UNCHANGED <<tasks, goals, bot_tasks, bot_goals>> /\ UNCHANGED lockVars

get_goals ==
  /\ resp' = List("get_goals", goals).resp
  /\ NoteNone /\ UNCHANGED storeVars /\ UNCHANGED lockVars

create_goal ==
  /\ LiveRecords < MaxRecords
  /\ \E goal \in CreateGoalInputs, uuid \in Uuids :
       LET r == CreateGoal(goals, goal, uuid)
       IN goals' = r.store /\ resp' = r.resp /\ NoteAdd("goals", r.resp.body)
  /\ UNCHANGED <<tasks, comments, bot_tasks, bot_goals>> /\ UNCHANGED lockVars

update_progress ==
  /\ \E id \in Uuids, progress \in UpdateProgressInputs :
       LET r == UpdateProgress(goals, id, progress)
       IN goals' = r.store /\ resp' = r.resp
  /\ NoteOther("goals", goals, goals')
  /\ UNCHANGED <<tasks, comments, bot_tasks, bot_goals>> /\ UNCHANGED lockVars

get_bot_tasks ==
  /\ resp' = List("get_bot_tasks", bot_tasks).resp
  /\ NoteNone /\ UNCHANGED storeVars /\ UNCHANGED lockVars

add_bot_task ==
  /\ LiveRecords < MaxRecords
  /\ \E task \in BotTaskInputs :
       LET r == AddBotTask(bot_tasks, NextId(bot_tasks), task)
       IN bot_tasks' = r.store /\ resp' = r.resp
          /\ NoteAdd("bot_tasks", r.resp.body)
  /\ UNCHANGED <<tasks, comments, goals, bot_goals>> /\ UNCHANGED lockVars

update_bot_task ==
  /\ \E id \in PathIds, task \in BotTaskInputs :
       LET r == UpdateBotTask(bot_tasks, id, task)
       IN bot_tasks' = r.store /\ resp' = r.resp
  /\ NoteOther("bot_tasks", bot_tasks, bot_tasks')
  /\ UNCHANGED <<tasks, comments, goals, bot_goals>> /\ UNCHANGED lockVars

complete_bot_task ==
  /\ \E task_id \in PathIds :
       LET r == CompleteBotTask(bot_tasks, task_id)
       IN bot_tasks' = r.store /\ resp' = r.resp
  /\ NoteOther("bot_tasks", bot_tasks, bot_tasks')
  /\ UNCHANGED <<tasks, comments, goals, bot_goals>> /\ UNCHANGED lockVars

get_bot_goals ==
  /\ resp' = List("get_bot_goals", bot_goals).resp
  /\ NoteNone /\ UNCHANGED storeVars /\ UNCHANGED lockVars

add_bot_goal ==
  /\ LiveRecords < MaxRecords
  /\ \E goal \in BotGoalInputs, uuid \in Uuids :
       LET r == AddBotGoal(bot_goals, goal, uuid)
       IN bot_goals' = r.store /\ resp' = r.resp
          /\ NoteAdd("bot_goals", r.resp.body)
  /\ UNCHANGED <<tasks, comments, goals, bot_tasks>> /\ UNCHANGED lockVars

delete_bot_task ==
  /\ \E task_id \in PathIds :
       LET r == DeleteBotTask(bot_tasks, task_id)
       IN bot_tasks' = r.store /\ resp' = r.resp
  /\ NoteOther("bot_tasks", bot_tasks, bot_tasks')
  /\ UNCHANGED <<tasks, comments, goals, bot_goals>> /\ UNCHANGED lockVars

Next ==
  \/ get_tasks \/ add_task \/ complete_task
  \/ get_comments \/ add_comment \/ update_comment
  \/ get_goals \/ create_goal \/ update_progress
  \/ get_bot_tasks \/ add_bot_task \/ update_bot_task
  \/ complete_bot_task \/ delete_bot_task
  \/ get_bot_goals \/ add_bot_goal

Spec == Init /\ [][Next]_vars

\* the handlers of one kind, or of one state group, on their own
NextAdd ==
  \/ get_tasks \/ add_task
  \/ get_comments \/ add_comment
  \/ get_goals \/ create_goal
  \/ get_bot_tasks \/ add_bot_task
  \/ get_bot_goals \/ add_bot_goal
SpecAdd == Init /\ [][NextAdd]_vars

NextApp ==
  \/ get_tasks \/ add_task \/ complete_task
  \/ get_comments \/ add_comment \/ update_comment
  \/ get_goals \/ create_goal \/ update_progress
SpecApp == Init /\ [][NextApp]_vars

NextBot ==
  \/ get_bot_tasks \/ add_bot_task \/ update_bot_task
  \/ complete_bot_task \/ delete_bot_task
  \/ get_bot_goals \/ add_bot_goal
SpecBot == Init /\ [][NextBot]_vars

(* ---------------------------------------------------------------------- *)
(* Concurrent use: every request runs its handler on a worker of its own.  *)
(* A handler first takes the Mutex of its store (lock().unwrap() blocks    *)
(* while another worker holds it), works on the collection, and drops the  *)
(* guard when it returns. Which handler of the store a worker runs shows   *)
(* at its first step after the lock. The response goes to the worker's     *)
(* caller; resp, added and pure, which observe sequential use, stand       *)
(* still. Every handler is sent one request body, one uuid and one date.   *)
(* ---------------------------------------------------------------------- *)
\* slip: the collection is reached without waiting for the Mutex
MutexIgnored(s) == TRUE

\* Mutex::lock() returns only while no other guard of the Mutex is alive
MutexAvailable(s) == lock[s] = 0

\* the stores whose add handler computes the id from len()
LenIdStores == {"tasks", "comments", "bot_tasks"}

lock_store(w, s) ==
  /\ pc[w] = "idle"
  /\ MutexAvailable(s)
  /\ lock' = [lock EXCEPT ![s] = w]
  /\ pc' = [pc EXCEPT ![w] = "locked"]
  /\ op' = [op EXCEPT ![w] = s]
  /\ UNCHANGED <<new_id, dataVars>>

\* the handler of worker w returns: its MutexGuard is dropped
Return(w) ==
  /\ lock' = [lock EXCEPT ![op[w]] = 0]
  /\ pc' = [pc EXCEPT ![w] = "idle"]
  /\ op' = [op EXCEPT ![w] = "none"]
  /\ new_id' = [new_id EXCEPT ![w] = 0]
  /\ UNCHANGED <<resp, added, pure>>

Locked(w, s) == pc[w] = "locked" /\ op[w] = s

\* add_task, add_comment, add_bot_task: new.id = Some(len() as u32 + 1)
read_len(w) ==
  /\ pc[w] = "locked"
  /\ op[w] \in LenIdStores
  /\ LiveRecords < MaxRecordsLock
  /\ new_id' = [new_id EXCEPT ![w] = NextId(Store(op[w]))]
  /\ pc' = [pc EXCEPT ![w] = "computed"]
  /\ UNCHANGED <<lock, op, dataVars>>

\* add_task, add_comment, add_bot_task: push(new.clone()) and return
push(w) ==
  /\ pc[w] = "computed"
  /\ \/ /\ op[w] = "tasks"
        /\ \E task \in {TaskBody1}, today \in {<<2025, 1, 31>>} :
             tasks' = AddTask(tasks, new_id[w], task, today).store
        /\ UNCHANGED <<comments, goals, bot_tasks, bot_goals>>
     \/ /\ op[w] = "comments"
        /\ \E comment \in {CommentBody1} :
             comments' = AddComment(comments, new_id[w], comment).store
        /\ UNCHANGED <<tasks, goals, bot_tasks, bot_goals>>
     \/ /\ op[w] = "bot_tasks"
        /\ \E task \in {BotTaskBody1} :
             bot_tasks' = AddBotTask(bot_tasks, new_id[w], task).store
        /\ UNCHANGED <<tasks, comments, goals, bot_goals>>
  /\ Return(w)

\* get_tasks, get_comments, get_goals, get_bot_tasks, get_bot_goals
list_on(w) ==
  /\ pc[w] = "locked"
  /\ UNCHANGED storeVars /\ Return(w)

complete_task_on(w) ==
  /\ Locked(w, "tasks")
  /\ \E task_id \in PathIdsLock : tasks' = CompleteTask(tasks, task_id).store
  /\ UNCHANGED <<comments, goals, bot_tasks, bot_goals>> /\ Return(w)

update_comment_on(w) ==
  /\ Locked(w, "comments")
  /\ \E id \in PathIdsLock, comment \in {CommentBody1} :
       comments' = UpdateComment(comments, id, comment).store
  /\ UNCHANGED <<tasks, goals, bot_tasks, bot_goals>> /\ Return(w)

create_goal_on(w) ==
  /\ Locked(w, "goals")
  /\ LiveRecords < MaxRecordsLock
  /\ \E goal \in CreateGoalInputs, uuid \in {"u1"} :
       goals' = CreateGoal(goals, goal, uuid).store
  /\ UNCHANGED <<tasks, comments, bot_tasks, bot_goals>> /\ Return(w)

update_progress_on(w) ==
  /\ Locked(w, "goals")
  /\ \E id \in {"u1"}, progress \in UpdateProgressInputs :
       goals' = UpdateProgress(goals, id, progress).store
  /\ UNCHANGED <<tasks, comments, bot_tasks, bot_goals>> /\ Return(w)

update_bot_task_on(w) ==
  /\ Locked(w, "bot_tasks")
  /\ \E id \in PathIdsLock, task \in {BotTaskBody1} :
       bot_tasks' = UpdateBotTask(bot_tasks, id, task).store
  /\ UNCHANGED <<tasks, comments, goals, bot_goals>> /\ Return(w)

complete_bot_task_on(w) ==
  /\ Locked(w, "bot_tasks")
  /\ \E task_id \in PathIdsLock :
       bot_tasks' = CompleteBotTask(bot_tasks, task_id).store
  /\ UNCHANGED <<tasks, comments, goals, bot_goals>> /\ Return(w)

delete_bot_task_on(w) ==
  /\ Locked(w, "bot_tasks")
  /\ \E task_id \in PathIdsLock :
       bot_tasks' = DeleteBotTask(bot_tasks, task_id).store
  /\ UNCHANGED <<tasks, comments, goals, bot_goals>> /\ Return(w)

add_bot_goal_on(w) ==
  /\ Locked(w, "bot_goals")
  /\ LiveRecords < MaxRecordsLock
  /\ \E goal \in BotGoalInputs, uuid \in {"u1"} :
       bot_goals' = AddBotGoal(bot_goals, goal, uuid).store
  /\ UNCHANGED <<tasks, comments, goals, bot_tasks>> /\ Return(w)

\* the steps of the handler worker w is in
Step(w) ==
  \/ read_len(w) \/ push(w) \/ list_on(w)
  \/ complete_task_on(w) \/ update_comment_on(w)
  \/ create_goal_on(w) \/ update_progress_on(w)
  \/ update_bot_task_on(w) \/ complete_bot_task_on(w)
  \/ delete_bot_task_on(w) \/ add_bot_goal_on(w)

NextLock ==
  \E w \in Workers :
    \/ \E s \in StoreNames : lock_store(w, s)
    \/ Step(w)

SpecLock == Init /\ [][NextLock]_vars

(* ---------------------------------------------------------------------- *)
(* Properties                                                              *)
(* ---------------------------------------------------------------------- *)
UniqueIdsIn(seq) ==
  \A i, j \in 1..Len(seq) : i # j => seq[i].id # seq[j].id

\* indices of the records of seq that carry id
Hits(seq, id) == {i \in 1..Len(seq) : seq[i].id = Some(id)}

\* seq without its element at index i
Without(seq, i) == SubSeq(seq, 1, i - 1) \o SubSeq(seq, i + 1, Len(seq))

ListOp(s) ==
  CASE s = "tasks" -> "get_tasks"
    [] s = "comments" -> "get_comments"
    [] s = "goals" -> "get_goals"
    [] s = "bot_tasks" -> "get_bot_tasks"
    [] s = "bot_goals" -> "get_bot_goals"

\* C1: under sequential use no two live records of the task, comment or
\* bot task store share an id (so every add returns an id no other record
\* of its store carries).
C1_UniqueIds ==
  /\ UniqueIdsIn(tasks)
  /\ UniqueIdsIn(comments)
  /\ UniqueIdsIn(bot_tasks)

\* C2 as stated: in every store, after n adds and no other mutation, list
\* returns exactly the n added records, in the order they were added.
C2_ListIsAdded ==
  \A s \in StoreNames :
    (pure[s] /\ resp.op = ListOp(s)) => resp.body = added[s]

\* C2 as amended: in every store, after n adds and no other mutation, the
\* collection, and what list returns, is the records main() seeded the store
\* with followed by the n added records in the order they were added
\* (n + 2 records in the comment store).
C2_ListIsSeedThenAdded ==
  \A s \in StoreNames :
    pure[s] =>
      /\ Store(s) = InitStore(s) \o added[s]
      /\ resp.op = ListOp(s) => resp.body = InitStore(s) \o added[s]

C2_Witness ==
  /\ resp.op = "get_comments"
  /\ pure["comments"]
  /\ Len(added["comments"]) = 2
  /\ Len(resp.body) = 4

\* C3 as stated: while one add has computed its id from the collection
\* length and has not pushed yet, a second add on the same store can get at
\* the collection and read the same, by then stale, length.
C3_SecondAddReadsSameLen ==
  \A w1, w2 \in Workers :
    (w1 # w2 /\ pc[w1] = "computed" /\ pc[w2] = "idle")
      => ENABLED lock_store(w2, op[w1])

\* C3 as amended: concurrent adds on one store are serialised by its Mutex:
\* from the moment an add computes its id until it pushes, no other handler
\* is at that collection, so the id is the length the collection has at the
\* push, plus one; no add pushes with an id from a stale length.
C3_AddIdFromCurrentLen ==
  \A w \in Workers :
    pc[w] = "computed" =>
      /\ new_id[w] = Len(Store(op[w])) + 1
      /\ \A w2 \in Workers \ {w} : pc[w2] # "idle" => op[w2] # op[w]

C3_Witness ==
  \E w1, w2 \in Workers :
    /\ w1 # w2
    /\ pc[w1] = "computed" /\ op[w1] = "comments" /\ new_id[w1] = 3
    /\ pc[w2] = "idle"
    /\ ~ ENABLED lock_store(w2, "comments")
    /\ ENABLED push(w1)

\* the state part of C4: exclusion, one lock per worker, progress
C4_LockInv ==
  /\ \A w1, w2 \in Workers :
       (w1 # w2 /\ pc[w1] # "idle" /\ pc[w2] # "idle") => op[w1] # op[w2]
  /\ \A w \in Workers :
       {s \in StoreNames : lock[s] = w}
         = IF pc[w] = "idle" THEN {} ELSE {op[w]}
  /\ \A s \in StoreNames : lock[s] \in Workers \cup {0}
  /\ \A w \in Workers : pc[w] # "idle" => ENABLED Step(w)

\* C4: no two handlers are inside the critical section of the same store; a
\* worker holds the lock of the store its handler works on and no other,
\* from its first access to its return; a collection changes only in a step
\* of the worker holding its lock; and a worker inside a handler can always
\* take its next step, so no interleaving over the five stores deadlocks.
C4_LockDiscipline ==
  /\ []C4_LockInv
  /\ [][\A s \in StoreNames :
          Store(s)' # Store(s) =>
            /\ lock[s] \in Workers
            /\ pc[lock[s]] # "idle" /\ op[lock[s]] = s
            /\ pc'[lock[s]] = "idle" /\ lock'[s] = 0]_vars

C4_Witness ==
  \E w1, w2 \in Workers :
    /\ pc[w1] = "computed" /\ op[w1] = "tasks"
    /\ pc[w2] = "locked" /\ op[w2] = "bot_tasks"
    /\ lock["tasks"] = w1 /\ lock["bot_tasks"] = w2

\* C5: right after a successful delete(id) on the bot task store no record
\* of the store carries that id, and a delete of the same id that follows
\* at once answers NotFound and leaves the store as it is.
C5_DeleteThenGone ==
  /\ [](resp.op = "delete_bot_task" /\ resp.status = 200
          => Hits(bot_tasks, resp.id) = {})
  /\ [][(/\ resp.op = "delete_bot_task" /\ resp.status = 200
         /\ resp'.op = "delete_bot_task" /\ resp'.id = resp.id)
          => (resp'.status = 404 /\ bot_tasks' = bot_tasks)]_vars

C5_Witness ==
  /\ resp.op = "delete_bot_task" /\ resp.status = 200 /\ resp.id = 2
  /\ Len(bot_tasks) = 1

\* C6: update(id, replacement) on the comment store: when a comment carries
\* the id, the stored comment gets the replacement's title and content and
\* keeps the path id, whatever id the replacement carries, every other
\* comment and the order stay, and the updated comment is returned; when
\* none carries it, NotFound is returned and the store is unchanged.
C6_UpdateComment ==
  [][resp'.op = "update_comment" =>
       LET id == resp'.id
           hit == Hits(comments, id)
           updated == [id |-> Some(id), title |-> resp'.req.title,
                       content |-> resp'.req.content]
       IN IF hit # {}
          THEN /\ resp'.status = 200
               /\ resp'.body = updated
               /\ Len(comments') = Len(comments)
               /\ \A i \in 1..Len(comments) :
                    comments'[i] = IF i \in hit THEN updated ELSE comments[i]
               /\ Cardinality(hit) = 1
          ELSE /\ resp'.status = 404
               /\ comments' = comments]_vars

C6_Witness ==
  /\ resp.op = "update_comment" /\ resp.status = 200 /\ resp.id = 2
  /\ resp.req.id = Some(9)
  /\ Len(comments) = 3
  /\ comments[1] = SeedComments[1]
  /\ comments[2] = [id |-> Some(2), title |-> "u", content |-> "y"]
  /\ comments[3].id = Some(3)

\* C7: complete(id) on the bot task store: when a record carries the id,
\* the returned record has completed = true and is the record stored under
\* that id; when none carries it, NotFound is returned and the collection
\* is left as it was.
C7_CompleteBotTask ==
  [][resp'.op = "complete_bot_task" =>
       LET id == resp'.id
           hit == Hits(bot_tasks, id)
       IN IF hit # {}
          THEN /\ resp'.status = 200
               /\ resp'.body.completed = TRUE
               /\ resp'.body.id = Some(id)
               /\ \E i \in hit : bot_tasks'[i] = resp'.body
               /\ Len(bot_tasks') = Len(bot_tasks)
          ELSE /\ resp'.status = 404
               /\ bot_tasks' = bot_tasks]_vars

C7_Witness ==
  /\ resp.op = "complete_bot_task" /\ resp.status = 200 /\ resp.id = 2
  /\ Len(bot_tasks) = 2
  /\ bot_tasks[2] = resp.body
  /\ resp.body = [id |-> Some(2), title |-> "p", completed |-> TRUE,
                  is_pomodoro |-> TRUE]
  /\ ~ bot_tasks[1].completed

\* C8: complete(id) on the main task store never signals not-found: it
\* answers 200 with the full task list; when a task carries the id, only
\* the completed flag of the first such task is set and every other task
\* and field stays; when none carries it, the store is unchanged.
C8_CompleteTask ==
  [][resp'.op = "complete_task" =>
       LET id == resp'.id
           hit == Hits(tasks, id)
       IN /\ resp'.status = 200
          /\ resp'.body = tasks'
          /\ UNCHANGED <<comments, goals, bot_tasks, bot_goals>>
          /\ IF hit # {}
             THEN \E f \in hit :
                    /\ \A j \in hit : f <= j
                    /\ tasks' = [tasks EXCEPT ![f].completed = TRUE]
             ELSE tasks' = tasks]_vars

C8_Witness ==
  /\ resp.op = "complete_task" /\ resp.status = 200 /\ resp.id = 1
  /\ Len(tasks) = 2
  /\ resp.body = tasks
  /\ tasks[1].completed /\ tasks[1].title = "a"
  /\ ~ tasks[2].completed

C10_DeleteRemovesOne ==
  [][(resp'.op = "delete_bot_task" /\ resp'.status = 200) =>
       /\ Len(bot_tasks') = Len(bot_tasks) - 1
       /\ \E i \in 1..Len(bot_tasks) : bot_tasks' = Without(bot_tasks, i)]_vars
====
